---- MODULE Spec2Model ----
(***************************************************************************)
(* The framed echo server (EchoServer::start / handle_client_data /        *)
(* close_client): one reactor thread, one detached handler thread per      *)
(* readiness event, a buffer map and a lock map keyed by the raw fd.       *)
(* The kernel side (fd table, epoll interest, socket queues) and the       *)
(* clients are the environment.                                            *)
(***************************************************************************)
EXTENDS Integers, Sequences, FiniteSets, TLC

\* ---------------------------------------------------------------- constants
MAGIC_NUMBER == 439041101
BUFFER_SIZE == 4096
header_total == 12
DUMMY_SIZE == 4096

\* ------------------------------------------------------------------- bounds
MaxFd == 2
MaxThreads == 3
MaxConns == 2
MaxShortWrites == 1

\* the longest script, hence the most one send or one write can carry
MaxSend == 2 * header_total + 2

FDS == 1..MaxFd
THREADS == 1..MaxThreads
CONNS == 1..MaxConns
MainThread == MaxThreads + 1

Min(a, b) == IF a < b THEN a ELSE b

\* ------------------------------------------------------------- wire tokens
\* A byte on the wire carries its 8-bit value and, as a tag that no code
\* reads, the connection whose client produced it and its place in that
\* client's stream.
Byte(c, i, v) == (c * 64 + i) * 256 + v
Val(b) == b % 256
Pos(b) == (b \div 256) % 64
Src(b) == b \div 16384

Tag(c, vs) == [i \in 1..Len(vs) |-> Byte(c, i, vs[i])]

\* htonl: a host u32 as four bytes, most significant first
htonl(n) ==
  << (n \div 16777216) % 256, (n \div 65536) % 256, (n \div 256) % 256, n % 256 >>

\* ntohl of four received bytes (the field as it lies in the header struct)
ntohl(w) ==
  Val(w[1]) * 16777216 + Val(w[2]) * 65536 + Val(w[3]) * 256 + Val(w[4])

\* One frame as the client builds it: header fields in network order, payload
FrameBytes(magic, len, id, payload) ==
  htonl(magic) \o htonl(len) \o htonl(id) \o payload

\* What a client may send on its connection
ScriptOf(kind) ==
  CASE kind = "one"      -> FrameBytes(MAGIC_NUMBER, 2, 9, <<97, 98>>)
    [] kind = "hello"    -> FrameBytes(MAGIC_NUMBER, 5, 7, <<104, 101, 108, 108, 111>>)
    [] kind = "two"      -> FrameBytes(MAGIC_NUMBER, 1, 1, <<97>>)
                              \o FrameBytes(MAGIC_NUMBER, 1, 2, <<98>>)
    [] kind = "badmagic" -> FrameBytes(MAGIC_NUMBER + 1, 1, 3, <<97>>)
    [] kind = "zerolen"  -> FrameBytes(MAGIC_NUMBER, 0, 4, <<97>>)
    [] kind = "toolong"  -> FrameBytes(MAGIC_NUMBER, BUFFER_SIZE + 1, 5, <<97>>)
    [] kind = "maxlen"   -> FrameBytes(MAGIC_NUMBER, BUFFER_SIZE, 6, <<97>>)
    [] kind = "short"    -> FrameBytes(MAGIC_NUMBER, 1, 8, <<97>>)
    [] OTHER             -> << >>

AllKinds == {"one", "hello", "two", "badmagic", "zerolen", "toolong", "maxlen", "short"}

VARIABLES
  env,            \* the run's clients and kernel: kinds, conns, sizes, shorts, faults, sync
  cstate,         \* per connection: "unborn" | "backlog" | "estab" | "closed"
  kind,           \* per connection: the script its client sends
  sent,           \* per connection: bytes of the script that reached the server
  rcvq,           \* per connection: the server socket's receive queue
  out,            \* per connection: every byte the server wrote to it
  peer,           \* per connection: "open" | "fin" | "rst" | "stalled"
  drained,        \* per connection: bytes read and discarded by the drain loop
  why,            \* per connection: the reason logged when it was closed
  shortLeft,      \* per connection: short writes the kernel may still return
  backlog,        \* listen queue: connections not yet accepted
  listenEdge,     \* an edge on the listening fd not yet reported by epoll_wait
  fdConn,         \* kernel fd table: fd -> connection (0: fd is free)
  interest,       \* epoll: fd -> "none" | "armed" | "disabled"
  client_buffers, \* fd -> << >> (no entry) | <<buffer>>
  fd_mutexes,     \* the fds that have an entry in the lock map
  fdLockOwner,    \* fd -> thread that holds the entry's mutex (0: unlocked)
  buffer_mutex,   \* 0 | the thread that holds it
  mainPc,         \* reactor: "wait" | "accept" | "insert" | "deadlock"
  curFd,          \* reactor: client_fd of the accept-loop iteration
  pc,             \* handler thread: position in handle_client_data
  tfd,            \* handler thread: client_fd argument
  tconn,          \* handler thread: the connection client_fd named at dispatch
  header,         \* handler thread: bytes of the MessageHeader read so far
  buffer,         \* handler thread: << >> | <<the buffer it owns>>
  data_len,       \* handler thread: decoded data_len
  total_written,  \* handler thread: total_written of the current echo loop
  server_fd,      \* framed server: -1 | the fd socket() returned
  listen_fd,      \* unframed server: -1 | the fd socket() returned
  epoll_fd,       \* -1 | the fd epoll_create1() returned
  lstate,         \* listening socket: "none" | "open" | "listening" | "closed"
  estate,         \* epoll instance: "none" | "open" | "closed"
  badClose,       \* fds on which close() was called while they were not open
  listenArmed,    \* the listening fd is registered with the epoll instance
  frames,         \* unframed server: call stack of the main thread, innermost last
  initOk,         \* unframed server: "none" | what init() returned
  exitCode,       \* -1 while the process runs | its exit status
  shutdownDone    \* unframed server: a call of shutdown() has returned

connVars == <<cstate, kind, sent, rcvq, out, peer, drained, why, shortLeft>>
kernelVars == <<backlog, listenEdge, fdConn, interest>>
registryVars == <<client_buffers, fd_mutexes, fdLockOwner, buffer_mutex>>
mainVars == <<mainPc, curFd>>
threadVars == <<pc, tfd, tconn, header, buffer, data_len, total_written>>
fdVars == <<listen_fd, epoll_fd, lstate, estate, badClose, listenArmed>>
lifeVars == <<initOk, exitCode, shutdownDone>>
procVars == <<server_fd, fdVars, frames, lifeVars>>
vars == <<env, connVars, kernelVars, registryVars, mainVars, threadVars, procVars>>

\* The fds socket() and epoll_create1() return: the lowest numbers, taken before
\* any client fd
ListenFd == MaxFd + 1
EpollFd == MaxFd + 2

Script(c) == Tag(c, ScriptOf(kind[c]))

\* ----------------------------------------------------------------- initial
\* No byte in flight, nothing queued, no lock held, no handler thread
InitQuiet ==
  /\ sent = [c \in CONNS |-> 0]
  /\ rcvq = [c \in CONNS |-> << >>]
  /\ out = [c \in CONNS |-> << >>]
  /\ peer = [c \in CONNS |-> "open"]
  /\ drained = [c \in CONNS |-> 0]
  /\ why = [c \in CONNS |-> "none"]
  /\ shortLeft = [c \in CONNS |-> env.shorts]
  /\ backlog = << >>
  /\ listenEdge = FALSE
  /\ interest = [f \in FDS |-> "none"]
  /\ fdLockOwner = [f \in FDS |-> 0]
  /\ buffer_mutex = 0
  /\ badClose = {}
  /\ exitCode = -1
  /\ pc = [t \in THREADS |-> "idle"]
  /\ tfd = [t \in THREADS |-> 0]
  /\ tconn = [t \in THREADS |-> 0]
  /\ header = [t \in THREADS |-> << >>]
  /\ buffer = [t \in THREADS |-> << >>]
  /\ data_len = [t \in THREADS |-> 0]
  /\ total_written = [t \in THREADS |-> 0]

\* No connection, no registry entry, no handler thread
InitIdle ==
  /\ InitQuiet
  /\ cstate = [c \in CONNS |-> "unborn"]
  /\ kind = [c \in CONNS |-> "none"]
  /\ fdConn = [f \in FDS |-> 0]
  /\ client_buffers = [f \in FDS |-> << >>]
  /\ fd_mutexes = {}
  /\ curFd = 0

\* start() has reached its event loop: listening socket and epoll instance
\* open, the listening fd registered
InitLoop ==
  /\ server_fd = ListenFd
  /\ epoll_fd = EpollFd
  /\ lstate = "listening"
  /\ estate = "open"
  /\ listenArmed = TRUE
  /\ listen_fd = -1
  /\ frames = << >>
  /\ initOk = "none"
  /\ shutdownDone = FALSE

\* The framed server as start() enters its event loop
InitState ==
  /\ InitIdle
  /\ InitLoop
  /\ mainPc = "wait"

\* One connection at a time, any script, delivered in pieces of any size
Init ==
  /\ env = [kinds |-> AllKinds, conns |-> 1, sizes |-> 1..MaxSend,
            shorts |-> MaxShortWrites, faults |-> TRUE, sync |-> FALSE]
  /\ InitState

\* Several connections side by side, each script delivered header then payload
InitConc ==
  /\ env = [kinds |-> {"short", "badmagic"}, conns |-> MaxConns, sizes |-> {header_total},
            shorts |-> 0, faults |-> TRUE, sync |-> FALSE]
  /\ InitState

\* One connection whose client waits for each echo before it sends on
InitSync ==
  /\ env = [kinds |-> {"two", "hello"}, conns |-> 1, sizes |-> 1..MaxSend,
            shorts |-> MaxShortWrites, faults |-> TRUE, sync |-> TRUE]
  /\ InitState

\* ---------------------------------------------------------------- helpers
Live(c) == cstate[c] \in {"backlog", "estab"}

\* A read that reports the peer's orderly shutdown as a failure
ReadKindNoEof(c) ==
  IF c = 0 THEN "err"
  ELSE IF rcvq[c] # << >> THEN "data"
  ELSE IF peer[c] \in {"fin", "rst"} THEN "err"
  ELSE "eagain"

\* A read that reports an empty queue on an open connection as a failure
ReadKindFatal(c) ==
  IF c = 0 THEN "err"
  ELSE IF rcvq[c] # << >> THEN "data"
  ELSE IF peer[c] = "fin" THEN "eof"
  ELSE "err"

\* read(2) on a non-blocking stream socket: what the call returns now
ReadKind(c) ==
  IF c = 0 THEN "err"
  ELSE IF rcvq[c] # << >> THEN "data"
  ELSE IF peer[c] = "fin" THEN "eof"
  ELSE IF peer[c] = "rst" THEN "err"
  ELSE "eagain"

\* epoll's readiness of a connection socket for EPOLLIN (EOF and error count)
Readable(c) == c # 0 /\ ReadKind(c) # "eagain"

Take1(s, n) == SubSeq(s, 1, n)
Drop(s, n) == SubSeq(s, n + 1, Len(s))

IdleThreads == {t \in THREADS : pc[t] = "idle"}
FreeFds == {f \in FDS : fdConn[f] = 0}
LowestOf(S) == CHOOSE x \in S : \A y \in S : x <= y

\* ------------------------------------------------------------ environment
\* A client connects: the connection enters the listen queue
Connect(c, k) ==
  /\ lstate = "listening"
  /\ cstate[c] = "unborn"
  /\ \A d \in CONNS : d < c => cstate[d] # "unborn"
  /\ c <= env.conns
  /\ k \in env.kinds
  /\ Cardinality({d \in CONNS : Live(d)}) < MaxFd
  /\ cstate' = [cstate EXCEPT ![c] = "backlog"]
  /\ kind' = [kind EXCEPT ![c] = k]
  /\ backlog' = Append(backlog, c)
  /\ listenEdge' = TRUE
  /\ UNCHANGED <<env, procVars, sent, rcvq, out, peer, drained, why, shortLeft, fdConn, interest,
                 registryVars, mainVars, threadVars>>

\* EchoClient::handle_normal_connection sends message i+1 only after it has
\* received the whole echo of message i: how far into its script it may be
FirstFrameLen(c) == header_total + ntohl(SubSeq(Script(c), 5, 8))
SyncLimit(c) ==
  IF Len(Script(c)) <= FirstFrameLen(c) \/ Len(out[c]) >= FirstFrameLen(c)
    THEN Len(Script(c)) ELSE FirstFrameLen(c)

\* n more bytes of the client's script reach the server socket
ClientSend(c, n) ==
  /\ Live(c)
  /\ peer[c] = "open"
  /\ n \in 1..(Len(Script(c)) - sent[c])
  /\ n \in env.sizes \/ n = Len(Script(c)) - sent[c]
  /\ env.sync => sent[c] + n <= SyncLimit(c)
  /\ rcvq' = [rcvq EXCEPT ![c] = @ \o SubSeq(Script(c), sent[c] + 1, sent[c] + n)]
  /\ sent' = [sent EXCEPT ![c] = @ + n]
  /\ UNCHANGED <<env, procVars, cstate, kind, out, peer, drained, why, shortLeft, kernelVars,
                 registryVars, mainVars, threadVars>>

\* The client closes its end (FIN)
ClientClose(c) ==
  /\ Live(c)
  /\ peer[c] = "open"
  /\ peer' = [peer EXCEPT ![c] = "fin"]
  /\ UNCHANGED <<env, procVars, cstate, kind, sent, rcvq, out, drained, why, shortLeft, kernelVars,
                 registryVars, mainVars, threadVars>>

\* The client aborts the connection (RST)
ClientReset(c) ==
  /\ env.faults
  /\ Live(c)
  /\ peer[c] = "open"
  /\ peer' = [peer EXCEPT ![c] = "rst"]
  /\ UNCHANGED <<env, procVars, cstate, kind, sent, rcvq, out, drained, why, shortLeft, kernelVars,
                 registryVars, mainVars, threadVars>>

\* ---------------------------------------------------------------- reactor
\* epoll_wait reports the listening fd (edge-triggered): enter the accept loop
AcceptStart ==
  /\ mainPc = "wait"
  /\ listenEdge
  /\ backlog # << >>
  /\ mainPc' = "accept"
  /\ listenEdge' = FALSE
  /\ UNCHANGED <<env, procVars, connVars, backlog, fdConn, interest, registryVars, curFd, threadVars>>

\* accept() with an empty queue: EAGAIN ends the loop
AcceptEmpty ==
  /\ mainPc = "accept"
  /\ backlog = << >>
  /\ mainPc' = "wait"
  /\ UNCHANGED <<env, procVars, connVars, kernelVars, registryVars, curFd, threadVars>>

\* accept() fails with another errno: logged, the loop ends all the same
AcceptError ==
  /\ mainPc = "accept"
  /\ backlog # << >>
  /\ env.faults
  /\ mainPc' = "wait"
  /\ UNCHANGED <<env, procVars, connVars, kernelVars, registryVars, curFd, threadVars>>

\* accept() returns the lowest free fd; set_nonblocking succeeds or fails
AcceptOne(nbOk) ==
  /\ mainPc = "accept"
  /\ backlog # << >>
  /\ FreeFds # {}
  /\ (~nbOk) => env.faults
  /\ LET c == Head(backlog)
         f == LowestOf(FreeFds)
     IN /\ backlog' = Tail(backlog)
        /\ IF nbOk
             THEN /\ fdConn' = [fdConn EXCEPT ![f] = c]
                  /\ cstate' = [cstate EXCEPT ![c] = "estab"]
                  /\ mainPc' = "insert"
                  /\ curFd' = f
                  /\ why' = why
             ELSE \* close(client_fd); continue
                  /\ fdConn' = fdConn
                  /\ cstate' = [cstate EXCEPT ![c] = "closed"]
                  /\ mainPc' = "accept"
                  /\ curFd' = curFd
                  /\ why' = [why EXCEPT ![c] = "nonblock"]
  /\ UNCHANGED <<env, procVars, kind, sent, rcvq, out, peer, drained, shortLeft, listenEdge,
                 interest, registryVars, threadVars>>

\* lock buffer_mutex; client_buffers[client_fd] = new buffer; EPOLL_CTL_ADD.
\* On failure close_client runs with buffer_mutex already held by this thread:
\* it closes the socket and then locks buffer_mutex again, which never returns.
Insert(addOk) ==
  /\ mainPc = "insert"
  /\ buffer_mutex = 0
  /\ (~addOk) => env.faults
  /\ LET f == curFd
         c == fdConn[f]
     IN /\ client_buffers' = [client_buffers EXCEPT ![f] = << [owner |-> c, data |-> << >>] >>]
        /\ IF addOk
             THEN /\ interest' = [interest EXCEPT ![f] = "armed"]
                  /\ mainPc' = "accept"
                  /\ UNCHANGED <<buffer_mutex, fdConn, cstate, why>>
             ELSE /\ interest' = [interest EXCEPT ![f] = "none"]
                  /\ fdConn' = [fdConn EXCEPT ![f] = 0]
                  /\ cstate' = [cstate EXCEPT ![c] = "closed"]
                  /\ why' = [why EXCEPT ![c] = "epolladd"]
                  /\ buffer_mutex' = MainThread
                  /\ mainPc' = "deadlock"
  /\ UNCHANGED <<env, procVars, kind, sent, rcvq, out, peer, drained, shortLeft, backlog, listenEdge,
                 fd_mutexes, fdLockOwner, curFd, threadVars>>

\* A registration that stays armed after its event is reported
Delivered(f) == interest

\* EPOLLONESHOT: reporting an event of fd f disables the registration until
\* the next EPOLL_CTL_MOD
Oneshot(f) == [interest EXCEPT ![f] = "disabled"]

\* epoll_wait reports a client fd (EPOLLIN | EPOLLET | EPOLLONESHOT disables it)
\* and the loop starts a detached thread on handle_client_data(fd)
Dispatch(f) ==
  /\ mainPc = "wait"
  /\ interest[f] = "armed"
  /\ Readable(fdConn[f])
  /\ IdleThreads # {}
  /\ LET t == LowestOf(IdleThreads)
     IN /\ interest' = Oneshot(f)
        /\ pc' = [pc EXCEPT ![t] = "lock"]
        /\ tfd' = [tfd EXCEPT ![t] = f]
        /\ tconn' = [tconn EXCEPT ![t] = fdConn[f]]
  /\ UNCHANGED <<env, procVars, connVars, backlog, listenEdge, fdConn, registryVars, mainVars,
                 header, buffer, data_len, total_written>>


\* ---------------------------------------------------------------- handler
\* The kernel's close(fd): the fd number becomes free, the socket leaves epoll
\* A close_client that leaves the socket open
LeakFdConn(f) == fdConn

CloseFdConn(f) == [fdConn EXCEPT ![f] = 0]
CloseFdInterest(f) == [interest EXCEPT ![f] = "none"]
CloseFdState(f) == IF fdConn[f] = 0 THEN cstate ELSE [cstate EXCEPT ![fdConn[f]] = "closed"]

\* The thread leaves handle_client_data: its locals die with it
Locals(t) ==
  /\ tfd' = [tfd EXCEPT ![t] = 0]
  /\ tconn' = [tconn EXCEPT ![t] = 0]
  /\ header' = [header EXCEPT ![t] = << >>]
  /\ buffer' = [buffer EXCEPT ![t] = << >>]
  /\ data_len' = [data_len EXCEPT ![t] = 0]
  /\ total_written' = [total_written EXCEPT ![t] = 0]

\* std::lock_guard fd_lock(get_fd_mutex(client_fd)): the entry is created when
\* absent; the thread blocks while another thread holds the entry's mutex
LockFd(t) ==
  /\ pc[t] = "lock"
  /\ tfd[t] \notin fd_mutexes \/ fdLockOwner[tfd[t]] = 0
  /\ fd_mutexes' = fd_mutexes \cup {tfd[t]}
  /\ fdLockOwner' = [fdLockOwner EXCEPT ![tfd[t]] = t]
  /\ pc' = [pc EXCEPT ![t] = "take"]
  /\ UNCHANGED <<env, procVars, connVars, kernelVars, client_buffers, buffer_mutex, mainVars,
                 tfd, tconn, header, buffer, data_len, total_written>>

\* The lookup that takes the first entry of the map instead of the fd's own
FindBufferFirst(f) ==
  IF \E g \in FDS : client_buffers[g] # << >>
    THEN LowestOf({g \in FDS : client_buffers[g] # << >>}) ELSE f

\* client_buffers.find(client_fd): the key of the entry the handler takes
FindBuffer(f) == f

\* Under buffer_mutex: move the buffer out of client_buffers and memset it.
\* With no entry, close_client runs with buffer_mutex held: the socket is
\* closed, then the second lock of buffer_mutex by the same thread never returns.
TakeBuffer(t) ==
  /\ pc[t] = "take"
  /\ buffer_mutex = 0
  /\ LET f == tfd[t]
         it == FindBuffer(f)
     IN IF client_buffers[it] = << >>
          THEN /\ fdConn' = CloseFdConn(f)
               /\ interest' = CloseFdInterest(f)
               /\ cstate' = CloseFdState(f)
               /\ why' = IF fdConn[f] = 0 THEN why ELSE [why EXCEPT ![fdConn[f]] = "nobuffer"]
               /\ buffer_mutex' = t
               /\ pc' = [pc EXCEPT ![t] = "deadlock"]
               /\ UNCHANGED <<client_buffers, buffer, header>>
          ELSE /\ buffer' = [buffer EXCEPT ![t] = << [client_buffers[it][1] EXCEPT !.data = << >>] >>]
               /\ client_buffers' = [client_buffers EXCEPT ![it] = << >>]
               /\ header' = [header EXCEPT ![t] = << >>]
               /\ pc' = [pc EXCEPT ![t] = "readHeader"]
               /\ UNCHANGED <<fdConn, interest, cstate, why, buffer_mutex>>
  /\ UNCHANGED <<env, procVars, kind, sent, rcvq, out, peer, drained, shortLeft, backlog, listenEdge,
                 fd_mutexes, fdLockOwner, mainVars, tfd, tconn, data_len, total_written>>

\* while (header_read < header_total): is the loop over after n more bytes?
HeaderDone(have, n) == ~(have + n < header_total)

\* while (data_read < data_len): is the loop over after n more bytes?
BodyDoneEarly(have, n, len) == TRUE
BodyDone(have, n, len) == ~(have + n < len)

\* One iteration of the header loop: read(fd, (char*)&header + header_read, remaining)
ReadHeader(t, expired) ==
  /\ pc[t] = "readHeader"
  /\ LET c == fdConn[tfd[t]]
         r == ReadKind(c)
         n == Min(header_total - Len(header[t]), IF c = 0 THEN 0 ELSE Len(rcvq[c]))
     IN CASE r = "data" ->
               /\ ~expired
               /\ header' = [header EXCEPT ![t] = @ \o Take1(rcvq[c], n)]
               /\ rcvq' = [rcvq EXCEPT ![c] = Drop(@, n)]
               /\ pc' = [pc EXCEPT ![t] =
                           IF HeaderDone(Len(header[t]), n) THEN "validate" ELSE "readHeader"]
               /\ why' = why
          [] r = "eagain" ->
               /\ pc' = [pc EXCEPT ![t] = IF expired THEN "close" ELSE "readHeader"]
               /\ why' = IF expired THEN [why EXCEPT ![c] = "header timeout"] ELSE why
               /\ UNCHANGED <<header, rcvq>>
          [] r = "eof" ->
               /\ ~expired
               /\ pc' = [pc EXCEPT ![t] = "close"]
               /\ why' = [why EXCEPT ![c] = "eof"]
               /\ UNCHANGED <<header, rcvq>>
          [] OTHER ->
               /\ ~expired
               /\ pc' = [pc EXCEPT ![t] = "close"]
               /\ why' = IF c = 0 THEN why ELSE [why EXCEPT ![c] = "read failed"]
               /\ UNCHANGED <<header, rcvq>>
  /\ UNCHANGED <<env, procVars, cstate, kind, sent, out, peer, drained, shortLeft, kernelVars,
                 registryVars, mainVars, tfd, tconn, buffer, data_len, total_written>>

\* A length check that lets through a payload one byte longer than the buffer
HeaderVerdictAboveMax(h) ==
  IF ntohl(SubSeq(h, 1, 4)) # MAGIC_NUMBER THEN "magic"
  ELSE IF ntohl(SubSeq(h, 5, 8)) <= 0 \/ ntohl(SubSeq(h, 5, 8)) > BUFFER_SIZE + 1 THEN "length"
  ELSE "ok"

\* A length check that refuses a payload of exactly BUFFER_SIZE bytes
HeaderVerdictBelowMax(h) ==
  IF ntohl(SubSeq(h, 1, 4)) # MAGIC_NUMBER THEN "magic"
  ELSE IF ntohl(SubSeq(h, 5, 8)) <= 0 \/ ntohl(SubSeq(h, 5, 8)) >= BUFFER_SIZE THEN "length"
  ELSE "ok"

\* The header check with the magic comparison left out
HeaderVerdictNoMagic(h) ==
  IF ntohl(SubSeq(h, 5, 8)) <= 0 \/ ntohl(SubSeq(h, 5, 8)) > BUFFER_SIZE THEN "length"
  ELSE "ok"

\* The header check with data_len < 0 for data_len <= 0 and no upper limit
HeaderVerdictAnyLength(h) ==
  IF ntohl(SubSeq(h, 1, 4)) # MAGIC_NUMBER THEN "magic"
  ELSE IF ntohl(SubSeq(h, 5, 8)) < 0 THEN "length"
  ELSE "ok"

\* ntohl(header.magic) != MAGIC_NUMBER; data_len <= 0 || data_len > BUFFER_SIZE
HeaderVerdict(h) ==
  IF ntohl(SubSeq(h, 1, 4)) # MAGIC_NUMBER THEN "magic"
  ELSE IF ntohl(SubSeq(h, 5, 8)) <= 0 \/ ntohl(SubSeq(h, 5, 8)) > BUFFER_SIZE THEN "length"
  ELSE "ok"

Validate(t) ==
  /\ pc[t] = "validate"
  /\ LET c == fdConn[tfd[t]]
         v == HeaderVerdict(header[t])
     IN IF v = "ok"
          THEN /\ data_len' = [data_len EXCEPT ![t] = ntohl(SubSeq(header[t], 5, 8))]
               /\ pc' = [pc EXCEPT ![t] = "readBody"]
               /\ why' = why
          ELSE /\ pc' = [pc EXCEPT ![t] = "close"]
               /\ why' = IF c = 0 THEN why ELSE [why EXCEPT ![c] = v]
               /\ data_len' = data_len
  /\ UNCHANGED <<env, procVars, cstate, kind, sent, rcvq, out, peer, drained, shortLeft, kernelVars,
                 registryVars, mainVars, tfd, tconn, header, buffer, total_written>>

\* One iteration of the body loop: read(fd, buffer.get() + data_read, remaining)
ReadBody(t, expired) ==
  /\ pc[t] = "readBody"
  /\ LET c == fdConn[tfd[t]]
         r == ReadKind(c)
         have == Len(buffer[t][1].data)
         n == Min(data_len[t] - have, IF c = 0 THEN 0 ELSE Len(rcvq[c]))
     IN CASE r = "data" ->
               /\ ~expired
               /\ buffer' = [buffer EXCEPT ![t] = << [@[1] EXCEPT !.data = @ \o Take1(rcvq[c], n)] >>]
               /\ rcvq' = [rcvq EXCEPT ![c] = Drop(@, n)]
               /\ pc' = [pc EXCEPT ![t] =
                           IF BodyDone(have, n, data_len[t]) THEN "echoHeader" ELSE "readBody"]
               /\ total_written' = [total_written EXCEPT ![t] = 0]
               /\ why' = why
          [] r = "eagain" ->
               /\ pc' = [pc EXCEPT ![t] = IF expired THEN "close" ELSE "readBody"]
               /\ why' = IF expired THEN [why EXCEPT ![c] = "data timeout"] ELSE why
               /\ UNCHANGED <<buffer, rcvq, total_written>>
          [] r = "eof" ->
               /\ ~expired
               /\ pc' = [pc EXCEPT ![t] = "close"]
               /\ why' = [why EXCEPT ![c] = "eof"]
               /\ UNCHANGED <<buffer, rcvq, total_written>>
          [] OTHER ->
               /\ ~expired
               /\ pc' = [pc EXCEPT ![t] = "close"]
               /\ why' = IF c = 0 THEN why ELSE [why EXCEPT ![c] = "read failed"]
               /\ UNCHANGED <<buffer, rcvq, total_written>>
  /\ UNCHANGED <<env, procVars, cstate, kind, sent, out, peer, drained, shortLeft, kernelVars,
                 registryVars, mainVars, tfd, tconn, header, data_len>>


\* write(2) of n bytes on the connection returns k: 0 stands for EAGAIN, k = n
\* for a complete write, anything between for a short write; while the send
\* buffer is full (the peer does not read) every write is EAGAIN
CanWrite(c, n, k) ==
  /\ c # 0
  /\ peer[c] # "rst"
  /\ k \in 0..n
  /\ (0 < k /\ k < n) => shortLeft[c] > 0
  /\ peer[c] = "stalled" => k = 0

WriteFails(c) == c = 0 \/ peer[c] = "rst"

ShortAfter(c, n, k) ==
  IF 0 < k /\ k < n THEN [shortLeft EXCEPT ![c] = @ - 1] ELSE shortLeft

\* The bytes one write of the header loop hands to the kernel:
\* write(client_fd, &header, header_total - total_written)
HeaderChunk(h, written, k) == SubSeq(h, 1, k)

\* The bytes one write of the body loop hands to the kernel:
\* write(client_fd, buffer.get() + total_written, data_len - total_written)
BodyChunk(b, written, k) == SubSeq(b, written + 1, written + k)

\* One iteration of the header echo loop
EchoHeader(t, k) ==
  /\ pc[t] = "echoHeader"
  /\ LET c == fdConn[tfd[t]]
         n == header_total - total_written[t]
     IN IF WriteFails(c)
          THEN /\ k = 0
               /\ pc' = [pc EXCEPT ![t] = "close"]
               /\ why' = IF c = 0 THEN why ELSE [why EXCEPT ![c] = "write failed"]
               /\ UNCHANGED <<out, total_written, shortLeft>>
          ELSE /\ CanWrite(c, n, k)
               /\ out' = [out EXCEPT ![c] = @ \o HeaderChunk(header[t], total_written[t], k)]
               /\ shortLeft' = ShortAfter(c, n, k)
               /\ IF total_written[t] + k < header_total
                    THEN /\ total_written' = [total_written EXCEPT ![t] = @ + k]
                         /\ pc' = pc
                    ELSE /\ total_written' = [total_written EXCEPT ![t] = 0]
                         /\ pc' = [pc EXCEPT ![t] = "echoBody"]
               /\ why' = why
  /\ UNCHANGED <<env, procVars, cstate, kind, sent, rcvq, peer, drained, kernelVars,
                 registryVars, mainVars, tfd, tconn, header, buffer, data_len>>

\* One iteration of the body echo loop
EchoBody(t, k) ==
  /\ pc[t] = "echoBody"
  /\ LET c == fdConn[tfd[t]]
         n == data_len[t] - total_written[t]
     IN IF WriteFails(c)
          THEN /\ k = 0
               /\ pc' = [pc EXCEPT ![t] = "close"]
               /\ why' = IF c = 0 THEN why ELSE [why EXCEPT ![c] = "write failed"]
               /\ UNCHANGED <<out, total_written, shortLeft>>
          ELSE /\ CanWrite(c, n, k)
               /\ out' = [out EXCEPT ![c] = @ \o BodyChunk(buffer[t][1].data, total_written[t], k)]
               /\ shortLeft' = ShortAfter(c, n, k)
               /\ total_written' = [total_written EXCEPT ![t] = @ + k]
               /\ pc' = [pc EXCEPT ![t] =
                           IF total_written[t] + k < data_len[t] THEN "echoBody" ELSE "drain"]
               /\ why' = why
  /\ UNCHANGED <<env, procVars, cstate, kind, sent, rcvq, peer, drained, kernelVars,
                 registryVars, mainVars, tfd, tconn, header, buffer, data_len>>

\* One iteration of the drain loop: read(fd, dummy, sizeof(dummy)); <= 0 ends it
Drain(t) ==
  /\ pc[t] = "drain"
  /\ LET c == fdConn[tfd[t]]
     IN IF ReadKind(c) = "data"
          THEN /\ rcvq' = [rcvq EXCEPT ![c] = Drop(@, Min(DUMMY_SIZE, Len(@)))]
               /\ drained' = [drained EXCEPT ![c] = @ + Min(DUMMY_SIZE, Len(rcvq[c]))]
               /\ pc' = pc
          ELSE /\ pc' = [pc EXCEPT ![t] = "rearm"]
               /\ UNCHANGED <<rcvq, drained>>
  /\ UNCHANGED <<env, procVars, cstate, kind, sent, out, peer, why, shortLeft, kernelVars,
                 registryVars, mainVars, tfd, tconn, header, buffer, data_len, total_written>>

\* Under buffer_mutex: client_buffers[fd] = move(buffer); EPOLL_CTL_MOD re-arms
\* EPOLLIN | EPOLLET | EPOLLONESHOT (its result is not looked at)
Rearm(t) ==
  /\ pc[t] = "rearm"
  /\ buffer_mutex = 0
  /\ LET f == tfd[t]
     IN /\ client_buffers' = [client_buffers EXCEPT ![f] = buffer[t]]
        /\ buffer' = [buffer EXCEPT ![t] = << >>]
        /\ interest' = IF fdConn[f] # 0 /\ interest[f] # "none"
                         THEN [interest EXCEPT ![f] = "armed"] ELSE interest
        /\ pc' = [pc EXCEPT ![t] = "ret"]
  /\ UNCHANGED <<env, procVars, connVars, backlog, listenEdge, fdConn, fd_mutexes, fdLockOwner,
                 buffer_mutex, mainVars, tfd, tconn, header, data_len, total_written>>

\* End of handle_client_data after a re-arm: fd_lock releases the fd's mutex
Return(t) ==
  /\ pc[t] = "ret"
  /\ fdLockOwner' = [fdLockOwner EXCEPT ![tfd[t]] = IF @ = t THEN 0 ELSE @]
  /\ pc' = [pc EXCEPT ![t] = "idle"]
  /\ Locals(t)
  /\ UNCHANGED <<env, procVars, connVars, kernelVars, client_buffers, fd_mutexes, buffer_mutex, mainVars>>

\* close_client, first half: close(client_fd)
CloseSock(t) ==
  /\ pc[t] = "close"
  /\ fdConn' = CloseFdConn(tfd[t])
  /\ interest' = CloseFdInterest(tfd[t])
  /\ cstate' = CloseFdState(tfd[t])
  /\ pc' = [pc EXCEPT ![t] = "closeErase"]
  /\ UNCHANGED <<env, procVars, kind, sent, rcvq, out, peer, drained, why, shortLeft, backlog,
                 listenEdge, registryVars, mainVars, tfd, tconn, header, buffer, data_len,
                 total_written>>

\* close_client, second half: under buffer_mutex client_buffers.erase(fd), then
\* under fd_mutex_map_mutex fd_mutexes.erase(fd), the entry whose mutex this
\* thread still holds
CloseErase(t) ==
  /\ pc[t] = "closeErase"
  /\ buffer_mutex = 0
  /\ client_buffers' = [client_buffers EXCEPT ![tfd[t]] = << >>]
  /\ fd_mutexes' = fd_mutexes \ {tfd[t]}
  /\ fdLockOwner' = [fdLockOwner EXCEPT ![tfd[t]] = 0]
  /\ pc' = [pc EXCEPT ![t] = "unlockErased"]
  /\ UNCHANGED <<env, procVars, connVars, kernelVars, buffer_mutex, mainVars, tfd, tconn, header,
                 buffer, data_len, total_written>>

\* End of handle_client_data after close_client: fd_lock unlocks a mutex that
\* was destroyed. The store lands in freed memory: it is lost, or it hits the
\* mutex of a new entry for the same fd built in that memory and unlocks it.
UnlockErased(t, hit) ==
  /\ pc[t] = "unlockErased"
  /\ hit => tfd[t] \in fd_mutexes
  /\ fdLockOwner' = IF hit THEN [fdLockOwner EXCEPT ![tfd[t]] = 0] ELSE fdLockOwner
  /\ pc' = [pc EXCEPT ![t] = "idle"]
  /\ Locals(t)
  /\ UNCHANGED <<env, procVars, connVars, kernelVars, client_buffers, fd_mutexes, buffer_mutex, mainVars>>

\* --------------------------------------------------------------- the system
Environment ==
  \/ \E c \in CONNS, k \in AllKinds : Connect(c, k)
  \/ \E c \in CONNS, n \in 1..MaxSend : ClientSend(c, n)
  \/ \E c \in CONNS : ClientClose(c)
  \/ \E c \in CONNS : ClientReset(c)

Reactor ==
  \/ AcceptStart
  \/ AcceptEmpty
  \/ AcceptError
  \/ \E nbOk \in BOOLEAN : AcceptOne(nbOk)
  \/ \E addOk \in BOOLEAN : Insert(addOk)
  \/ \E f \in FDS : Dispatch(f)

Handler(t) ==
  \/ LockFd(t)
  \/ TakeBuffer(t)
  \/ \E expired \in BOOLEAN : ReadHeader(t, expired)
  \/ Validate(t)
  \/ \E expired \in BOOLEAN : ReadBody(t, expired)
  \/ \E k \in 0..header_total : EchoHeader(t, k)
  \/ \E k \in 0..MaxSend : EchoBody(t, k)
  \/ Drain(t)
  \/ Rearm(t)
  \/ Return(t)
  \/ CloseSock(t)
  \/ CloseErase(t)
  \/ \E hit \in BOOLEAN : UnlockErased(t, hit)

Next == Environment \/ Reactor \/ \E t \in THREADS : Handler(t)

Spec == Init /\ [][Next]_vars

SpecConc == InitConc /\ [][Next]_vars

SpecSync == InitSync /\ [][Next]_vars

\* ------------------------------------------------ the insert, on any registry
\* The acceptor is about to run the insert of an accepted fd; the maps hold
\* any entries a std::unordered_map can hold (buffers allocated for earlier
\* connections, blank or used), including an entry under the accepted fd,
\* which no run of the server itself leaves behind
InitInsert ==
  /\ env = [kinds |-> AllKinds, conns |-> 1, sizes |-> 1..MaxSend,
            shorts |-> MaxShortWrites, faults |-> TRUE, sync |-> FALSE]
  /\ InitQuiet
  /\ InitLoop
  /\ mainPc = "insert"
  /\ \E f \in FDS, c \in CONNS :
       /\ curFd = f
       /\ fdConn = [g \in FDS |-> IF g = f THEN c ELSE 0]
       /\ cstate = [d \in CONNS |->
                      IF d = c THEN "estab" ELSE IF d < c THEN "closed" ELSE "unborn"]
       /\ kind = [d \in CONNS |-> IF d <= c THEN "one" ELSE "none"]
       /\ client_buffers \in
            [FDS -> {<< >>} \cup {<< [owner |-> d, data |-> x] >> :
                                    d \in 1..(c - 1), x \in {<< >>, << Byte(1, 1, 97) >>}}]
  /\ fd_mutexes \in SUBSET FDS

NextInsert == \E addOk \in BOOLEAN : Insert(addOk)

SpecInsert == InitInsert /\ [][NextInsert]_vars

\* ------------------------------------------------- start(): setup, teardown
\* The framed server from the first line of start(), under its main()
InitStart ==
  /\ env = [kinds |-> AllKinds, conns |-> 1, sizes |-> 1..MaxSend,
            shorts |-> MaxShortWrites, faults |-> TRUE, sync |-> FALSE]
  /\ InitIdle
  /\ mainPc = "socket"
  /\ server_fd = -1
  /\ epoll_fd = -1
  /\ lstate = "none"
  /\ estate = "none"
  /\ listenArmed = FALSE
  /\ listen_fd = -1
  /\ frames = << >>
  /\ initOk = "none"
  /\ shutdownDone = FALSE

\* start(): the setup calls in order; each one succeeds or fails
StartOrder ==
  << "socket", "setsockopt", "bind", "listen", "nonblock", "epoll_create", "epoll_add" >>

\* The kernel closes a listening socket: the connections queued on it are reset
ResetBacklog ==
  /\ backlog' = << >>
  /\ listenEdge' = FALSE
  /\ cstate' = [c \in CONNS |-> IF cstate[c] = "backlog" THEN "closed" ELSE cstate[c]]

\* One setup call of start(). A failure is logged, the fds opened so far are
\* closed (server_fd and epoll_fd keep their values) and start() returns;
\* after the last call running = true and the event loop begins
StartStep(ok) ==
  /\ exitCode = -1
  /\ \E j \in 1..Len(StartOrder) : mainPc = StartOrder[j]
  /\ (~ok) => env.faults
  /\ LET p == mainPc
         i == CHOOSE j \in 1..Len(StartOrder) : StartOrder[j] = p
     IN /\ server_fd' = IF p = "socket" /\ ok THEN ListenFd ELSE server_fd
        /\ epoll_fd' = IF p = "epoll_create" /\ ok THEN EpollFd ELSE epoll_fd
        /\ estate' = IF p = "epoll_create" /\ ok THEN "open"
                     ELSE IF p = "epoll_add" /\ ~ok THEN "closed"
                     ELSE estate
        /\ listenArmed' = (p = "epoll_add" /\ ok)
        /\ initOk' = IF ~ok THEN "false" ELSE IF p = "epoll_add" THEN "true" ELSE initOk
        /\ mainPc' = IF ~ok THEN "returned"
                     ELSE IF p = "epoll_add" THEN "wait"
                     ELSE StartOrder[i + 1]
        /\ IF ok
             THEN /\ lstate' = IF p = "socket" THEN "open"
                               ELSE IF p = "listen" THEN "listening"
                               ELSE lstate
                  /\ UNCHANGED <<backlog, listenEdge, cstate>>
             ELSE IF p = "socket"
               THEN UNCHANGED <<lstate, backlog, listenEdge, cstate>>
               ELSE lstate' = "closed" /\ ResetBacklog
  /\ UNCHANGED <<env, kind, sent, rcvq, out, peer, drained, why, shortLeft, fdConn, interest,
                 registryVars, curFd, threadVars, listen_fd, badClose, frames, exitCode,
                 shutdownDone>>

\* ~EchoServer(): close server_fd and epoll_fd if they are not -1, clear both
\* maps under their mutexes
Destroy ==
  /\ exitCode = -1
  /\ mainPc = "returned"
  /\ buffer_mutex = 0
  /\ lstate' = IF server_fd # -1 /\ lstate \in {"open", "listening"} THEN "closed" ELSE lstate
  /\ estate' = IF epoll_fd # -1 /\ estate = "open" THEN "closed" ELSE estate
  /\ badClose' = badClose
       \cup (IF server_fd # -1 /\ lstate \notin {"open", "listening"} THEN {server_fd} ELSE {})
       \cup (IF epoll_fd # -1 /\ estate # "open" THEN {epoll_fd} ELSE {})
  /\ client_buffers' = [f \in FDS |-> << >>]
  /\ fd_mutexes' = {}
  /\ mainPc' = "destroyed"
  /\ UNCHANGED <<env, connVars, kernelVars, fdLockOwner, buffer_mutex, curFd, threadVars,
                 server_fd, listen_fd, epoll_fd, listenArmed, frames, lifeVars>>

\* main(): start() has returned without an exception and server is destroyed:
\* return 0
MainReturn ==
  /\ exitCode = -1
  /\ mainPc = "destroyed"
  /\ exitCode' = 0
  /\ UNCHANGED <<env, connVars, kernelVars, registryVars, mainVars, threadVars, server_fd,
                 fdVars, frames, initOk, shutdownDone>>

NextStart == (\E ok \in BOOLEAN : StartStep(ok)) \/ Destroy \/ MainReturn \/ Next

SpecStart == InitStart /\ [][NextStart]_vars

\* ------------------------------------------------------- the unframed server
\* EchoServer of echo_server.cpp under main() of server_main.cpp: one thread,
\* whose call stack grows by a frame whenever SIGINT or SIGTERM is delivered
\* (handle_signal runs shutdown() and exit(0) on top of whatever it interrupted).
PLAIN_BUFFER_SIZE == 16384

Signals == {"SIGINT", "SIGTERM"}

\* What the unframed server never touches
framedVars == <<fd_mutexes, fdLockOwner, mainPc, threadVars, server_fd, drained>>

\* The process is constructed (main has set server_ptr) and is about to call init()
InitPlain ==
  /\ env = [kinds |-> {"one"}, conns |-> MaxConns, sizes |-> {MaxSend},
            shorts |-> 0, faults |-> TRUE, sync |-> FALSE]
  /\ InitIdle
  /\ mainPc = "none"
  /\ server_fd = -1
  /\ listen_fd = -1
  /\ epoll_fd = -1
  /\ lstate = "none"
  /\ estate = "none"
  /\ listenArmed = FALSE
  /\ frames = << "init_socket" >>
  /\ initOk = "none"
  /\ shutdownDone = FALSE

Top == frames[Len(frames)]
At(p) == exitCode = -1 /\ frames # << >> /\ Top = p
Goto(p) == [frames EXCEPT ![Len(frames)] = p]

\* close(2) on the listening fd number / the epoll fd number
CloseListen == IF lstate \in {"open", "listening"} THEN "closed" ELSE lstate
CloseEpoll == IF estate = "open" THEN "closed" ELSE estate

\* init(): the calls in order; each one succeeds or fails
InitOrder ==
  << "init_socket", "init_sockopt", "init_bind", "init_listen", "init_nonblock",
     "init_epoll", "init_add" >>

\* One call of init(). socket() failing returns false; setsockopt, bind, listen,
\* set_non_blocking and epoll_create1 failing close listen_fd (the member keeps
\* its value) and return false; add_to_epoll failing only prints, init returns true
InitStep(ok) ==
  /\ exitCode = -1 /\ frames # << >>
  /\ \E j \in 1..Len(InitOrder) : Top = InitOrder[j]
  /\ (~ok) => env.faults
  /\ LET p == Top
         i == CHOOSE j \in 1..Len(InitOrder) : InitOrder[j] = p
         next == IF p = "init_add" THEN "main_check" ELSE InitOrder[i + 1]
     IN /\ listen_fd' = IF p = "init_socket" /\ ok THEN ListenFd ELSE listen_fd
        /\ epoll_fd' = IF p = "init_epoll" /\ ok THEN EpollFd ELSE epoll_fd
        /\ lstate' = IF p = "init_socket" THEN (IF ok THEN "open" ELSE lstate)
                     ELSE IF p = "init_add" THEN lstate
                     ELSE IF ~ok THEN CloseListen
                     ELSE IF p = "init_listen" THEN "listening"
                     ELSE lstate
        /\ estate' = IF p = "init_epoll" /\ ok THEN "open" ELSE estate
        /\ listenArmed' = IF p = "init_add" THEN ok ELSE listenArmed
        /\ initOk' = IF p = "init_add" THEN "true" ELSE IF ok THEN initOk ELSE "false"
        /\ frames' = IF ok \/ p = "init_add" THEN Goto(next) ELSE Goto("main_check")
  /\ UNCHANGED <<env, framedVars, connVars, kernelVars, client_buffers, buffer_mutex, curFd,
                 badClose, exitCode, shutdownDone>>

\* main(): if (!server.init(port)) return 1, which destroys server; else run()
MainCheck ==
  /\ At("main_check")
  /\ frames' = IF initOk = "true" THEN Goto("run") ELSE Goto("sd_epoll")
  /\ UNCHANGED <<env, framedVars, connVars, kernelVars, client_buffers, buffer_mutex, curFd,
                 fdVars, lifeVars>>

\* run(): returns at once unless both fds are set; else enters the loop
RunEnter ==
  /\ At("run")
  /\ frames' = IF epoll_fd = -1 \/ listen_fd = -1 THEN Goto("sd_epoll") ELSE Goto("wait")
  /\ UNCHANGED <<env, framedVars, connVars, kernelVars, client_buffers, buffer_mutex, curFd,
                 fdVars, lifeVars>>

\* epoll_wait returns -1: the loop breaks, run() returns, main returns 0 and
\* the destructor of server calls shutdown()
WaitFails ==
  /\ At("wait")
  /\ env.faults
  /\ frames' = Goto("sd_epoll")
  /\ UNCHANGED <<env, framedVars, connVars, kernelVars, client_buffers, buffer_mutex, curFd,
                 fdVars, lifeVars>>

\* epoll_wait reports the listening fd (EPOLLIN | EPOLLET): handle_new_connection
ListenEvent ==
  /\ At("wait")
  /\ listenArmed
  /\ listenEdge
  /\ backlog # << >>
  /\ listenEdge' = FALSE
  /\ frames' = Goto("hnc_accept")
  /\ UNCHANGED <<env, framedVars, connVars, backlog, fdConn, interest, client_buffers,
                 buffer_mutex, curFd, fdVars, lifeVars>>

\* handle_new_connection: one accept(); on failure return; set_non_blocking,
\* on failure close(client_fd) and return
HncAccept(res) ==
  /\ At("hnc_accept")
  /\ backlog # << >>
  /\ FreeFds # {}
  /\ res \in {"ok", "nonblock", "accept"}
  /\ res # "ok" => env.faults
  /\ LET c == Head(backlog)
         f == LowestOf(FreeFds)
     IN CASE res = "accept" ->
               /\ frames' = Goto("wait")
               /\ UNCHANGED <<backlog, fdConn, cstate, why, curFd>>
          [] res = "nonblock" ->
               /\ backlog' = Tail(backlog)
               /\ cstate' = [cstate EXCEPT ![c] = "closed"]
               /\ why' = [why EXCEPT ![c] = "nonblock"]
               /\ frames' = Goto("wait")
               /\ UNCHANGED <<fdConn, curFd>>
          [] OTHER ->
               /\ backlog' = Tail(backlog)
               /\ fdConn' = [fdConn EXCEPT ![f] = c]
               /\ cstate' = [cstate EXCEPT ![c] = "estab"]
               /\ curFd' = f
               /\ frames' = Goto("hnc_lock")
               /\ why' = why
  /\ UNCHANGED <<env, fd_mutexes, fdLockOwner, mainPc, threadVars, server_fd, drained, kind,
                 sent, rcvq, out, peer, shortLeft, listenEdge, interest, client_buffers,
                 buffer_mutex, fdVars, lifeVars>>

\* A lock_guard on buffer_mutex is constructed by the running frame
PlainLock(from, to) ==
  /\ At(from)
  /\ buffer_mutex = 0
  /\ buffer_mutex' = MainThread
  /\ frames' = Goto(to)
  /\ UNCHANGED <<env, framedVars, connVars, kernelVars, client_buffers, curFd, fdVars,
                 lifeVars>>

\* handle_new_connection: lock_guard lock(buffer_mutex)
HncLock == PlainLock("hnc_lock", "hnc_insert")

\* client_buffers[client_fd] = buffer; the guard's scope ends
HncInsert ==
  /\ At("hnc_insert")
  /\ client_buffers' =
       [client_buffers EXCEPT ![curFd] = << [owner |-> fdConn[curFd], data |-> << >>] >>]
  /\ buffer_mutex' = 0
  /\ frames' = Goto("hnc_add")
  /\ UNCHANGED <<env, framedVars, connVars, kernelVars, curFd, fdVars, lifeVars>>

\* add_to_epoll(client_fd, EPOLLIN | EPOLLET): a failure is only printed
HncAdd(ok) ==
  /\ At("hnc_add")
  /\ (~ok) => env.faults
  /\ interest' = IF ok THEN [interest EXCEPT ![curFd] = "armed"] ELSE interest
  /\ curFd' = 0
  /\ frames' = Goto("wait")
  /\ UNCHANGED <<env, framedVars, connVars, backlog, listenEdge, fdConn, client_buffers,
                 buffer_mutex, fdVars, lifeVars>>

\* The event bits epoll reports for a connection socket registered for EPOLLIN:
\* EPOLLERR and EPOLLHUP are always reported, and a reset socket is readable
EventFlags(c) ==
  IF peer[c] = "rst" THEN {"EPOLLIN", "EPOLLERR", "EPOLLHUP"} ELSE {"EPOLLIN"}

\* epoll_wait reports a client fd: EPOLLIN is tested first and leads to
\* handle_client_data; only an event without EPOLLIN reaches close_client
ClientEvent(f) ==
  /\ At("wait")
  /\ interest[f] = "armed"
  /\ Readable(fdConn[f])
  /\ curFd' = f
  /\ frames' = IF "EPOLLIN" \in EventFlags(fdConn[f]) THEN Goto("hcd_lock")
               ELSE IF EventFlags(fdConn[f]) \cap {"EPOLLERR", "EPOLLHUP"} # {}
                 THEN Goto("cc_close")
               ELSE frames
  /\ UNCHANGED <<env, framedVars, connVars, kernelVars, client_buffers, buffer_mutex, fdVars,
                 lifeVars>>

\* handle_client_data: lock_guard lock(buffer_mutex)
HcdLock == PlainLock("hcd_lock", "hcd_find")

\* client_buffers.find(client_fd): return if absent, else keep the pointer
HcdFind ==
  /\ At("hcd_find")
  /\ buffer_mutex' = 0
  /\ IF client_buffers[curFd] = << >>
       THEN frames' = Goto("wait") /\ curFd' = 0
       ELSE frames' = Goto("hcd_read") /\ curFd' = curFd
  /\ UNCHANGED <<env, framedVars, connVars, kernelVars, client_buffers, fdVars, lifeVars>>

\* One turn of the read loop: read up to BUFFER_SIZE bytes and write them back
\* with a single write(), whose result k is the whole chunk, a part of it
\* (the rest is not retried), or -1 with EAGAIN (k = 0, nothing retried);
\* a failed write, EOF or a failed read lead to close_client; EAGAIN on read
\* ends the invocation
HcdRead(k) ==
  /\ At("hcd_read")
  /\ LET c == fdConn[curFd]
         n == Min(Len(rcvq[c]), PLAIN_BUFFER_SIZE)
     IN CASE ReadKind(c) = "data" ->
               /\ rcvq' = [rcvq EXCEPT ![c] = Drop(@, n)]
               /\ IF peer[c] = "rst"
                    THEN /\ k = 0
                         /\ why' = [why EXCEPT ![c] = "write failed"]
                         /\ frames' = Goto("cc_close")
                         /\ UNCHANGED <<out, shortLeft>>
                    ELSE /\ k \in 0..n
                         /\ k < n => shortLeft[c] > 0
                         /\ out' = [out EXCEPT ![c] = @ \o Take1(rcvq[c], k)]
                         /\ shortLeft' = [shortLeft EXCEPT ![c] = IF k < n THEN @ - 1 ELSE @]
                         /\ UNCHANGED <<why, frames>>
               /\ curFd' = curFd
          [] ReadKind(c) = "eof" ->
               /\ k = 0
               /\ why' = [why EXCEPT ![c] = "eof"]
               /\ frames' = Goto("cc_close")
               /\ UNCHANGED <<rcvq, out, shortLeft, curFd>>
          [] ReadKind(c) = "err" ->
               /\ k = 0
               /\ why' = [why EXCEPT ![c] = "read failed"]
               /\ frames' = Goto("cc_close")
               /\ UNCHANGED <<rcvq, out, shortLeft, curFd>>
          [] OTHER ->
               /\ k = 0
               /\ frames' = Goto("wait")
               /\ curFd' = 0
               /\ UNCHANGED <<rcvq, out, shortLeft, why>>
  /\ UNCHANGED <<env, framedVars, cstate, kind, sent, peer, kernelVars, client_buffers,
                 buffer_mutex, fdVars, lifeVars>>

\* close_client: remove_from_epoll(client_fd); close(client_fd)
CcClose ==
  /\ At("cc_close")
  /\ interest' = CloseFdInterest(curFd)
  /\ fdConn' = CloseFdConn(curFd)
  /\ cstate' = CloseFdState(curFd)
  /\ frames' = Goto("cc_lock")
  /\ UNCHANGED <<env, framedVars, kind, sent, rcvq, out, peer, why, shortLeft, backlog,
                 listenEdge, client_buffers, buffer_mutex, curFd, fdVars, lifeVars>>

\* close_client: lock_guard lock(buffer_mutex)
CcLock == PlainLock("cc_lock", "cc_erase")

\* close_client: delete[] the buffer and erase the entry, if there is one
CcErase ==
  /\ At("cc_erase")
  /\ client_buffers' = [client_buffers EXCEPT ![curFd] = << >>]
  /\ buffer_mutex' = 0
  /\ curFd' = 0
  /\ frames' = Goto("wait")
  /\ UNCHANGED <<env, framedVars, connVars, kernelVars, fdVars, lifeVars>>

\* SIGINT or SIGTERM is delivered (each at most once: it stays blocked while
\* its handler runs, and the handler never returns): handle_signal calls
\* server_ptr->shutdown() on top of the interrupted frame
Signal ==
  /\ exitCode = -1
  /\ frames # << >>
  /\ Len(frames) <= Cardinality(Signals)
  /\ frames' = Append(frames, "sd_epoll")
  /\ UNCHANGED <<env, framedVars, connVars, kernelVars, client_buffers, buffer_mutex, curFd,
                 fdVars, lifeVars>>

\* shutdown(): if (epoll_fd != -1) close(epoll_fd). Closing the epoll instance
\* drops every registration
SdEpoll ==
  /\ At("sd_epoll")
  /\ IF epoll_fd # -1
       THEN /\ estate' = CloseEpoll
            /\ badClose' = badClose \cup (IF estate = "open" THEN {} ELSE {epoll_fd})
            /\ listenArmed' = IF estate = "open" THEN FALSE ELSE listenArmed
            /\ interest' = IF estate = "open" THEN [f \in FDS |-> "none"] ELSE interest
            /\ frames' = Goto("sd_epoll_reset")
       ELSE /\ frames' = Goto("sd_listen")
            /\ UNCHANGED <<estate, badClose, listenArmed, interest>>
  /\ UNCHANGED <<env, framedVars, connVars, backlog, listenEdge, fdConn, client_buffers,
                 buffer_mutex, curFd, listen_fd, epoll_fd, lstate, lifeVars>>

\* shutdown(): epoll_fd = -1
SdEpollReset ==
  /\ At("sd_epoll_reset")
  /\ epoll_fd' = -1
  /\ frames' = Goto("sd_listen")
  /\ UNCHANGED <<env, framedVars, connVars, kernelVars, client_buffers, buffer_mutex, curFd,
                 listen_fd, lstate, estate, badClose, listenArmed, lifeVars>>

\* shutdown(): if (listen_fd != -1) close(listen_fd). Closing the listening
\* socket resets the connections still queued on it
SdListen ==
  /\ At("sd_listen")
  /\ IF listen_fd # -1
       THEN /\ lstate' = CloseListen
            /\ badClose' = badClose
                 \cup (IF lstate \in {"open", "listening"} THEN {} ELSE {listen_fd})
            /\ IF lstate \in {"open", "listening"}
                 THEN /\ backlog' = << >>
                      /\ listenEdge' = FALSE
                      /\ listenArmed' = FALSE
                      /\ cstate' = [c \in CONNS |->
                                      IF cstate[c] = "backlog" THEN "closed" ELSE cstate[c]]
                 ELSE UNCHANGED <<backlog, listenEdge, listenArmed, cstate>>
            /\ frames' = Goto("sd_listen_reset")
       ELSE /\ frames' = Goto("sd_lock")
            /\ UNCHANGED <<lstate, badClose, backlog, listenEdge, listenArmed, cstate>>
  /\ UNCHANGED <<env, framedVars, kind, sent, rcvq, out, peer, why, shortLeft, fdConn,
                 interest, client_buffers, buffer_mutex, curFd, listen_fd, epoll_fd, estate,
                 lifeVars>>

\* shutdown(): listen_fd = -1
SdListenReset ==
  /\ At("sd_listen_reset")
  /\ listen_fd' = -1
  /\ frames' = Goto("sd_lock")
  /\ UNCHANGED <<env, framedVars, connVars, kernelVars, client_buffers, buffer_mutex, curFd,
                 epoll_fd, lstate, estate, badClose, listenArmed, lifeVars>>

\* shutdown(): lock_guard lock(buffer_mutex). The mutex is not recursive: if a
\* frame below on the same thread holds it, the call never returns
SdLock ==
  /\ At("sd_lock")
  /\ IF buffer_mutex = 0
       THEN buffer_mutex' = MainThread /\ frames' = Goto("sd_clients")
       ELSE buffer_mutex' = buffer_mutex /\ frames' = Goto("deadlock")
  /\ UNCHANGED <<env, framedVars, connVars, kernelVars, client_buffers, curFd, fdVars,
                 lifeVars>>

\* The fds that have an entry in client_buffers
Keys == {f \in FDS : client_buffers[f] # << >>}

\* A map that keeps its entries
Kept == client_buffers

\* client_buffers.clear()
Cleared == [f \in FDS |-> << >>]

\* shutdown(): close(pair.first) and delete[] pair.second for every entry,
\* client_buffers.clear(), and the guard's scope ends with the function
SdClients ==
  /\ At("sd_clients")
  /\ fdConn' = [f \in FDS |-> IF f \in Keys THEN 0 ELSE fdConn[f]]
  /\ interest' = [f \in FDS |-> IF f \in Keys THEN "none" ELSE interest[f]]
  /\ cstate' = [c \in CONNS |->
                  IF \E f \in Keys : fdConn[f] = c THEN "closed" ELSE cstate[c]]
  /\ badClose' = badClose \cup {f \in Keys : fdConn[f] = 0}
  /\ client_buffers' = Cleared
  /\ buffer_mutex' = 0
  /\ frames' = Goto("sd_ret")
  /\ UNCHANGED <<env, framedVars, kind, sent, rcvq, out, peer, why, shortLeft, backlog,
                 listenEdge, curFd, listen_fd, epoll_fd, lstate, estate, listenArmed, lifeVars>>

\* shutdown() returns: to ~EchoServer() in main's frame, to handle_signal above it
SdReturn ==
  /\ At("sd_ret")
  /\ shutdownDone' = TRUE
  /\ frames' = IF Len(frames) = 1 THEN Goto("main_ret") ELSE Goto("sig_exit")
  /\ UNCHANGED <<env, framedVars, connVars, kernelVars, client_buffers, buffer_mutex, curFd,
                 fdVars, initOk, exitCode>>

\* The process ends: handle_signal calls exit(0); main returns 1 after a failed
\* init() and 0 after run()
Exit ==
  /\ At("main_ret") \/ At("sig_exit")
  /\ exitCode' = IF Top = "main_ret" /\ initOk = "false" THEN 1 ELSE 0
  /\ UNCHANGED <<env, framedVars, connVars, kernelVars, client_buffers, buffer_mutex, curFd,
                 fdVars, frames, initOk, shutdownDone>>

PlainServer ==
  \/ \E ok \in BOOLEAN : InitStep(ok)
  \/ MainCheck
  \/ RunEnter
  \/ WaitFails
  \/ ListenEvent
  \/ \E res \in {"ok", "nonblock", "accept"} : HncAccept(res)
  \/ HncLock
  \/ HncInsert
  \/ \E ok \in BOOLEAN : HncAdd(ok)
  \/ \E f \in FDS : ClientEvent(f)
  \/ HcdLock
  \/ HcdFind
  \/ \E k \in 0..MaxSend : HcdRead(k)
  \/ CcClose
  \/ CcLock
  \/ CcErase

Shutdown ==
  \/ Signal
  \/ SdEpoll
  \/ SdEpollReset
  \/ SdListen
  \/ SdListenReset
  \/ SdLock
  \/ SdClients
  \/ SdReturn
  \/ Exit

\* The clients of a process that still runs
Up == exitCode = -1 /\ frames # << >> /\ Top # "deadlock"

Clients ==
  \/ \E c \in CONNS, k \in AllKinds : Up /\ Connect(c, k)
  \/ \E c \in CONNS, n \in 1..MaxSend : Up /\ ClientSend(c, n)
  \/ \E c \in CONNS : Up /\ ClientClose(c)
  \/ \E c \in CONNS : Up /\ ClientReset(c)

NextPlain == Clients \/ PlainServer \/ Shutdown

SpecPlain == InitPlain /\ [][NextPlain]_vars

\* ------------------------------------------------- vocabulary of the claims
RECURSIVE FramesIn(_)
\* The complete valid frames of a byte stream, in order (a reference parser)
FramesIn(bs) ==
  IF Len(bs) < header_total THEN << >>
  ELSE LET len == ntohl(SubSeq(bs, 5, 8))
       IN IF /\ ntohl(SubSeq(bs, 1, 4)) = MAGIC_NUMBER
             /\ 0 < len /\ len <= BUFFER_SIZE
             /\ Len(bs) >= header_total + len
            THEN << SubSeq(bs, 1, header_total + len) >> \o FramesIn(Drop(bs, header_total + len))
            ELSE << >>

RECURSIVE Concat(_)
Concat(ss) == IF ss = << >> THEN << >> ELSE Head(ss) \o Concat(Tail(ss))

IsPrefix(a, b) == Len(a) <= Len(b) /\ SubSeq(b, 1, Len(a)) = a
Suffix(a, n) == SubSeq(a, Len(a) - n + 1, Len(a))
Bytes(bs) == {bs[i] : i \in 1..Len(bs)}
Places(bs) == {Pos(bs[i]) : i \in 1..Len(bs)}

Active(t) == pc[t] # "idle"
Owned(t) == IF buffer[t] = << >> THEN << >> ELSE buffer[t][1].data
Received(t) == header[t] \o Owned(t)
Consumed(c) == sent[c] - Len(rcvq[c])
ClosePcs == {"close", "closeErase", "unlockErased"}
HeaderFull(t) == Active(t) /\ Len(header[t]) = header_total
FrameComplete(t) ==
  /\ HeaderFull(t)
  /\ HeaderVerdict(header[t]) = "ok"
  /\ Len(Owned(t)) = ntohl(SubSeq(header[t], 5, 8))

\* C1: round trip. Once the handler has the 12 header bytes and the data_len
\* payload bytes of a valid frame and its echo loops are done, what it wrote
\* to the connection is those header bytes followed by those payload bytes
\* (and nothing else, when this is the connection's first frame).
C1_RoundTrip ==
  \A t \in THREADS :
    pc[t] \in {"drain", "rearm"} =>
      LET c == tconn[t]
          e == Received(t)
      IN /\ Len(out[c]) >= Len(e)
         /\ Suffix(out[c], Len(e)) = e
         /\ (Consumed(c) - drained[c] = Len(e)) => out[c] = e

\* The echo of frames k of a script, for every choice of k in send order
EchoChoices(c) ==
  LET fs == FramesIn(Script(c))
      pick(K) == [i \in 1..Len(fs) |-> IF i \in K THEN fs[i] ELSE << >>]
  IN {Concat(pick(K)) : K \in SUBSET (1..Len(fs))}

\* C3: serialization within a connection. With two messages sent back to
\* back, the output is whole frames in send order (a prefix of them while an
\* echo is under way), and no byte of the second message lies in a header
\* accumulator before the first echo is written and its handler is past the
\* drain.
C3_Serialized ==
  \A c \in CONNS :
    kind[c] = "two" =>
      /\ \E e \in EchoChoices(c) : IsPrefix(out[c], e)
      /\ \A t \in THREADS :
           (tconn[t] = c /\ \E p \in Places(header[t]) : p > FirstFrameLen(c)) =>
             /\ Len(out[c]) >= FirstFrameLen(c)
             /\ \A u \in THREADS \ {t} :
                  (tconn[u] = c /\ \E q \in Places(header[u]) : q <= FirstFrameLen(c))
                    => pc[u] = "ret"

\* C4: after the echo of a valid frame the connection stays open with its
\* buffer back in the registry and its interest re-armed, and a second valid
\* message the client then sends is echoed: when the client has sent both,
\* nothing is in flight and no handler runs, the output is both frames.
C4_SecondAccepted ==
  \A c \in CONNS :
    ( /\ kind[c] = "two"
      /\ sent[c] = Len(Script(c))
      /\ rcvq[c] = << >>
      /\ peer[c] = "open"
      /\ why[c] = "none"
      /\ IsPrefix(SubSeq(Script(c), 1, FirstFrameLen(c)), out[c])
      /\ \A t \in THREADS : tconn[t] # c )
    => /\ cstate[c] = "estab"
       /\ \E f \in FDS : fdConn[f] = c /\ client_buffers[f] # << >> /\ interest[f] = "armed"
       /\ out[c] = Script(c)

\* Some byte of what handler t has received so far is already in the output
EchoedAny(t) == \E b \in Bytes(Received(t)) : b \in Bytes(out[tconn[t]])

BadMagic(t) == HeaderFull(t) /\ ntohl(SubSeq(header[t], 1, 4)) # MAGIC_NUMBER
BadLength(t) ==
  /\ HeaderFull(t)
  /\ ntohl(SubSeq(header[t], 1, 4)) = MAGIC_NUMBER
  /\ (ntohl(SubSeq(header[t], 5, 8)) = 0 \/ ntohl(SubSeq(header[t], 5, 8)) > BUFFER_SIZE)

\* C5: magic rejection. A handler holding a complete header whose magic
\* decodes to something other than 0x1A2B3C4D never goes on to the body or the
\* echo: it is at the validation or on the close path, past close(fd) the
\* connection is closed, and no byte of this message is in the output.
C5_MagicRejected ==
  \A t \in THREADS :
    BadMagic(t) =>
      /\ pc[t] \in {"validate"} \cup ClosePcs
      /\ pc[t] \in {"closeErase", "unlockErased"} => cstate[tconn[t]] = "closed"
      /\ pc[t] \in ClosePcs => why[tconn[t]] = "magic"
      /\ ~EchoedAny(t)

C5_Witness ==
  \E t \in THREADS :
    /\ BadMagic(t)
    /\ pc[t] = "unlockErased"
    /\ cstate[tconn[t]] = "closed"
    /\ out[tconn[t]] = << >>

\* C6: length rejection. A handler holding a complete header with the right
\* magic and data_len = 0 or data_len > BUFFER_SIZE is at the validation or on the
\* close path, has read no body byte into its buffer and has written nothing
\* of this message; past close(fd) the connection is closed.
C6_LengthRejected ==
  \A t \in THREADS :
    BadLength(t) =>
      /\ pc[t] \in {"validate"} \cup ClosePcs
      /\ pc[t] \in {"closeErase", "unlockErased"} => cstate[tconn[t]] = "closed"
      /\ pc[t] \in ClosePcs => why[tconn[t]] = "length"
      /\ Owned(t) = << >>
      /\ Consumed(tconn[t]) = Len(header[t])
      /\ ~EchoedAny(t)

C6_Witness ==
  \E t \in THREADS :
    /\ BadLength(t)
    /\ ntohl(SubSeq(header[t], 5, 8)) = 0
    /\ pc[t] = "unlockErased"
    /\ cstate[tconn[t]] = "closed"
    /\ rcvq[tconn[t]] # << >>
    /\ out[tconn[t]] = << >>

OneFrameKinds == {"one", "hello", "short"}

\* C7: fragmentation tolerance. Whatever the pieces a valid frame arrives in,
\* the output never holds more than that frame, and once the handler is past
\* its echo loops the output is exactly the unsplit frame.
C7_Fragmentation ==
  \A c \in CONNS :
    kind[c] \in OneFrameKinds =>
      /\ IsPrefix(out[c], Script(c))
      /\ \A t \in THREADS :
           (tconn[t] = c /\ pc[t] \in {"drain", "rearm", "ret"} /\ HeaderFull(t))
             => out[c] = Script(c)

\* C9: no partial frame is echoed. If any byte of the message a handler is
\* receiving is in the output, that handler holds the complete, valid header
\* and all data_len payload bytes (until it has handed its buffer back); so
\* every exit to the close path from the header loop, the validation or the body
\* loop leaves nothing of it written.
C9_NoPartialEcho ==
  \A t \in THREADS :
    (Active(t) /\ pc[t] # "ret" /\ EchoedAny(t)) =>
      /\ FrameComplete(t)
      /\ pc[t] \in {"echoHeader", "echoBody", "drain", "rearm"} \cup ClosePcs

C9_Witness ==
  \E t \in THREADS :
    /\ pc[t] = "closeErase"
    /\ HeaderFull(t)
    /\ HeaderVerdict(header[t]) = "ok"
    /\ Owned(t) # << >>
    /\ Len(Owned(t)) < data_len[t]
    /\ out[tconn[t]] = << >>

\* Positions of handle_client_data between the lock of the fd's mutex and its release
HeldPcs ==
  {"take", "readHeader", "validate", "readBody", "echoHeader", "echoBody", "drain",
   "rearm", "ret", "close", "closeErase", "unlockErased", "deadlock"}

InHandler(c) == {t \in THREADS : tconn[t] = c /\ pc[t] \in HeldPcs}
OwnersOf(c) == {t \in THREADS : buffer[t] # << >> /\ buffer[t][1].owner = c}

\* C2: per-connection mutual exclusion. For each live connection at most one
\* handler invocation is past the acquisition of the connection's lock, and
\* only that one can own the connection's buffer.
C2_MutualExclusion ==
  \A c \in CONNS :
    cstate[c] = "estab" =>
      /\ Cardinality(InHandler(c)) <= 1
      /\ OwnersOf(c) \subseteq InHandler(c)

\* C8: concurrent connections. Every byte written to a connection, held in a
\* buffer allocated for it or in the header accumulator of a handler
\* dispatched for it, was sent by that connection's own client; a handler
\* only ever owns the buffer of the connection it was dispatched for.
C8_NoCrossTalk ==
  /\ \A c \in CONNS : \A b \in Bytes(out[c]) : Src(b) = c
  /\ \A f \in FDS :
       client_buffers[f] # << >> =>
         \A b \in Bytes(client_buffers[f][1].data) : Src(b) = client_buffers[f][1].owner
  /\ \A t \in THREADS :
       /\ \A b \in Bytes(header[t]) : Src(b) = tconn[t]
       /\ buffer[t] # << >> =>
            /\ buffer[t][1].owner = tconn[t]
            /\ \A b \in Bytes(Owned(t)) : Src(b) = tconn[t]

\* Two connections are open at once, each already echoed to
C8_Witness ==
  \E c, d \in CONNS :
    /\ c # d
    /\ cstate[c] = "estab" /\ cstate[d] = "estab"
    /\ Len(out[c]) > header_total
    /\ \E t \in THREADS : tconn[t] = d /\ pc[t] = "echoBody" /\ Len(out[d]) = header_total

\* What the registry, the fd table and epoll hold for connection d
LockHeldFor(d, f) ==
  IF f \in fd_mutexes /\ fdLockOwner[f] # 0 /\ tconn[fdLockOwner[f]] = d
    THEN fdLockOwner[f] ELSE 0

RegistryOf(d) ==
  [f \in {g \in FDS : fdConn[g] = d} |->
     <<client_buffers[f], interest[f], LockHeldFor(d, f)>>]

\* C10: protocol-error isolation. A step of a handler that is closing its
\* connection for bad magic or bad length leaves every other live connection
\* as it was: its open handle, its buffer, its registered interest, and the
\* lock entry a handler of it holds.
C10_Isolation ==
  [][ \A t \in THREADS :
        ( /\ BadMagic(t) \/ BadLength(t)
          /\ pc[t] \in {"validate"} \cup ClosePcs
          /\ pc'[t] # pc[t] )
        => \A d \in CONNS \ {tconn[t]} :
             cstate[d] = "estab" =>
               /\ cstate'[d] = "estab"
               /\ RegistryOf(d)' = RegistryOf(d) ]_vars

\* Positions of a cycle before its re-arm
CyclePcs ==
  {"lock", "take", "readHeader", "validate", "readBody", "echoHeader", "echoBody", "drain",
   "rearm"}

\* C11: one-shot interest. For each connection at most one dispatched
\* invocation has not yet re-armed the fd; while that invocation is in its
\* cycle the registration is disabled, so nothing more is dispatched for the
\* handle; an invocation on the close path has not re-armed it.
C11_OneShot ==
  /\ \A c \in CONNS : Cardinality({t \in THREADS : tconn[t] = c /\ pc[t] # "ret"}) <= 1
  /\ \A t \in THREADS :
       (pc[t] \in CyclePcs /\ fdConn[tfd[t]] = tconn[t]) => interest[tfd[t]] = "disabled"
  /\ \A t \in THREADS :
       (pc[t] \in ClosePcs \cup {"deadlock"} /\ fdConn[tfd[t]] = tconn[t])
         => interest[tfd[t]] # "armed"

\* A second invocation was dispatched only after the first re-armed the fd
C11_Witness ==
  \E t, u \in THREADS :
    /\ t # u
    /\ tconn[t] = tconn[u]
    /\ pc[t] = "ret"
    /\ pc[u] = "lock"
    /\ interest[tfd[u]] = "disabled"

\* C12: error/hangup notifications route to teardown and bypass the handler:
\* no invocation of handle_client_data is started for a connection whose
\* socket reports an error or hang-up (the peer has reset it).
C12_ErrorBypassesHandler ==
  [][ \A t \in THREADS :
        (pc[t] = "idle" /\ pc'[t] = "lock") => peer[tconn'[t]] # "rst" ]_vars

\* C14: acceptor failure isolation. A candidate discarded because
\* set_nonblocking or the epoll registration failed is closed, no registry
\* entry is left for it, and the acceptor is not stopped by it.
C14_CandidateDiscarded ==
  \A c \in CONNS :
    why[c] \in {"nonblock", "epolladd"} =>
      /\ cstate[c] = "closed"
      /\ \A f \in FDS : client_buffers[f] # << >> => client_buffers[f][1].owner # c
      /\ mainPc # "deadlock"

\* C16: a take that finds no buffer is abandoned silently. The step of a
\* handler that looks up its buffer and finds none ends the invocation: the
\* fd's lock is released on return, no map guard stays held, and the fd
\* table, the buffers and the registered interest are as they were.
C16_TakeAbandoned ==
  [][ \A t \in THREADS :
        (pc[t] = "take" /\ pc'[t] # "take" /\ client_buffers[FindBuffer(tfd[t])] = << >>)
        => /\ pc'[t] \in {"ret", "idle"}
           /\ buffer_mutex' = buffer_mutex
           /\ fdConn' = fdConn
           /\ cstate' = cstate
           /\ interest' = interest
           /\ client_buffers' = client_buffers ]_vars

\* C17: lock before take. An invocation that is past the lock and has not
\* finished its cycle holds the lock entry of its fd, and an invocation that
\* takes the buffer after an earlier cycle of the connection ended in a
\* re-arm finds it in the registry.
C17_LockBeforeTake ==
  \A t \in THREADS :
    /\ pc[t] \in (CyclePcs \ {"lock"}) \cup {"ret", "close"} =>
         (tfd[t] \in fd_mutexes /\ fdLockOwner[tfd[t]] = t)
    /\ (pc[t] = "take" /\ out[tconn[t]] # << >>) => client_buffers[tfd[t]] # << >>

\* The event loop is back in epoll_wait
AcceptorIdle == IF frames = << >> THEN mainPc = "wait" ELSE At("wait")

\* C13: the acceptor drains the backlog. Once the acceptor has handled the
\* notification of the listening fd and waits again with no new edge raised,
\* no connection is left pending in the backlog.
C13_BacklogDrained ==
  (AcceptorIdle /\ ~listenEdge) => backlog = << >>

\* The positions of a frame inside shutdown()
SdPcs ==
  {"sd_epoll", "sd_epoll_reset", "sd_listen", "sd_listen_reset", "sd_lock", "sd_clients",
   "sd_ret"}

\* An accepted socket that handle_new_connection has not yet put in the map
Candidate(f) ==
  f = curFd /\ \E i \in 1..Len(frames) : frames[i] = "hnc_lock"

\* What a returning call of shutdown() leaves: both fds closed and reset, the
\* registry empty, every registered connection closed
ShutdownComplete ==
  /\ lstate \notin {"open", "listening"}
  /\ estate # "open"
  /\ listen_fd = -1
  /\ epoll_fd = -1
  /\ buffer_mutex = 0
  /\ \A f \in FDS : client_buffers[f] = << >>
  /\ \A f \in FDS : fdConn[f] # 0 => Candidate(f)

RunPcs ==
  {"wait", "hnc_accept", "hnc_lock", "hnc_insert", "hnc_add", "hcd_lock", "hcd_find",
   "hcd_read", "cc_close", "cc_lock", "cc_erase"}

\* C19: shutdown() is safe from the signal handler. Whatever run() or a
\* handler it called was doing when the signal arrived (also inside a
\* critical section of buffer_mutex), the shutdown() that handle_signal calls
\* does not block for ever on buffer_mutex.
C19_SignalSafe ==
  (Len(frames) >= 2 /\ frames[1] \in RunPcs) => frames[2] # "deadlock"

\* The reactor of the framed server is inside its event loop
InLoop == mainPc \in {"wait", "accept", "insert", "deadlock"}

\* C20: setup errors are fatal and surfaced. Once a setup call of start() has
\* failed, the event loop is never entered and the process that called
\* start() does not end with the status of a successful run.
C20_SetupSurfaced ==
  initOk = "false" => (~InLoop /\ exitCode # 0)

C21_WaitRetried ==
  [][ (Len(frames) = 1 /\ At("wait") /\ estate = "open") => frames'[1] \in RunPcs ]_vars

\* ------------------------------------------- the framed server, inline dispatch
\* The variant of start() that calls handle_client_data on the reactor thread:
\* the reactor is in its event loop only while no invocation is under way
Inline == \A t \in THREADS : pc[t] = "idle"

\* epoll_wait reports the listening fd: one accept() per notification, then
\* set_nonblocking, the insert under buffer_mutex and EPOLL_CTL_ADD. When the
\* registration fails close_client runs with buffer_mutex held by this thread.
InlineAccept(res) ==
  /\ mainPc = "wait"
  /\ Inline
  /\ listenEdge
  /\ backlog # << >>
  /\ FreeFds # {}
  /\ buffer_mutex = 0
  /\ res \in {"ok", "accept", "nonblock", "add"}
  /\ res # "ok" => env.faults
  /\ listenEdge' = FALSE
  /\ LET c == Head(backlog)
         f == LowestOf(FreeFds)
     IN CASE res = "accept" ->
               UNCHANGED <<backlog, fdConn, cstate, why, interest, client_buffers,
                           buffer_mutex, mainVars>>
          [] res = "nonblock" ->
               /\ backlog' = Tail(backlog)
               /\ cstate' = [cstate EXCEPT ![c] = "closed"]
               /\ why' = [why EXCEPT ![c] = "nonblock"]
               /\ UNCHANGED <<fdConn, interest, client_buffers, buffer_mutex, mainVars>>
          [] res = "add" ->
               /\ backlog' = Tail(backlog)
               /\ client_buffers' = [client_buffers EXCEPT ![f] = << [owner |-> c, data |-> << >>] >>]
               /\ cstate' = [cstate EXCEPT ![c] = "closed"]
               /\ why' = [why EXCEPT ![c] = "epolladd"]
               /\ buffer_mutex' = MainThread
               /\ mainPc' = "deadlock"
               /\ curFd' = f
               /\ UNCHANGED <<fdConn, interest>>
          [] OTHER ->
               /\ backlog' = Tail(backlog)
               /\ client_buffers' = [client_buffers EXCEPT ![f] = << [owner |-> c, data |-> << >>] >>]
               /\ fdConn' = [fdConn EXCEPT ![f] = c]
               /\ cstate' = [cstate EXCEPT ![c] = "estab"]
               /\ interest' = [interest EXCEPT ![f] = "armed"]
               /\ curFd' = f
               /\ UNCHANGED <<why, buffer_mutex, mainPc>>
  /\ UNCHANGED <<env, procVars, kind, sent, rcvq, out, peer, drained, shortLeft, fd_mutexes,
                 fdLockOwner, threadVars>>

\* epoll_wait reports a client fd: handle_client_data(fd) is called in place
InlineDispatch(f) == Inline /\ Dispatch(f)

NextInline ==
  \/ Environment
  \/ \E res \in {"ok", "accept", "nonblock", "add"} : InlineAccept(res)
  \/ \E f \in FDS : InlineDispatch(f)
  \/ \E t \in THREADS : Handler(t)

SpecInline == InitConc /\ [][NextInline]_vars

\* C22: handlers of different handles run in parallel. While an invocation
\* waits in its header or body read loop or in an echo write loop, a readiness
\* event of another fd that is armed and readable can be dispatched (the
\* reactor is in epoll_wait and a thread can be started).
C22_ParallelHandlers ==
  \A t \in THREADS, f \in FDS :
    ( /\ \/ pc[t] \in {"readHeader", "readBody"} /\ ReadKind(fdConn[tfd[t]]) = "eagain"
         \/ pc[t] \in {"echoHeader", "echoBody"}
      /\ f # tfd[t]
      /\ mainPc = "wait"
      /\ interest[f] = "armed"
      /\ Readable(fdConn[f])
      /\ IdleThreads # {} )
    => ENABLED InlineDispatch(f)

\* C23: echo under partial writes. In the header echo loop the bytes written
\* so far are the first total_written bytes of the received header, and in the
\* body echo loop they are the 12 header bytes followed by the first
\* total_written payload bytes, whatever write() returned on the way.
C23_PartialWriteEcho ==
  \A t \in THREADS :
    /\ pc[t] = "echoHeader" =>
         Suffix(out[tconn[t]], total_written[t]) = SubSeq(header[t], 1, total_written[t])
    /\ pc[t] = "echoBody" =>
         Suffix(out[tconn[t]], header_total + total_written[t])
           = header[t] \o SubSeq(Owned(t), 1, total_written[t])

\* C24: rearm ordering. The buffer is back in client_buffers before the fd is
\* re-armed (and an accepted fd is inserted before it is registered), so in
\* every state in which the interest of the fd of a live connection is armed,
\* client_buffers holds a buffer for that fd.
C24_ArmedHasBuffer ==
  \A f \in FDS :
    (interest[f] = "armed" /\ fdConn[f] # 0 /\ cstate[fdConn[f]] = "estab")
      => client_buffers[f] # << >>

\* C25: close post-state. At the step with which an invocation leaves
\* handle_client_data through close_client, the buffer it took is discarded and
\* no buffer of its connection is in client_buffers, the connection is closed
\* and owns no fd, the invocation does not hold the lock of the fd, and, unless
\* the fd number has meanwhile been taken over by a later connection or
\* invocation, fd_mutexes holds no entry for the fd.
C25_ClosePostState ==
  [][ \A t \in THREADS :
        (pc[t] \in ClosePcs /\ pc'[t] = "idle") =>
          /\ buffer'[t] = << >>
          /\ \A g \in FDS : client_buffers'[g] # << >> => client_buffers'[g][1].owner # tconn[t]
          /\ cstate'[tconn[t]] = "closed"
          /\ \A g \in FDS : fdConn'[g] # tconn[t]
          /\ fdLockOwner'[tfd[t]] # t
          /\ (fdConn'[tfd[t]] = 0 /\ \A u \in THREADS : tfd'[u] # tfd[t])
               => tfd[t] \notin fd_mutexes' ]_vars

\* An invocation has left through close_client while another connection is open
C25_Witness ==
  \E c, d \in CONNS :
    /\ why[c] = "magic"
    /\ cstate[c] = "closed"
    /\ \A t \in THREADS : tconn[t] # c
    /\ \A f \in FDS : fdConn[f] # c /\ (fdConn[f] = 0 => client_buffers[f] = << >>)
    /\ cstate[d] = "estab"

\* C26: timeout cancellation. An iteration of the header or body read loop
\* that finds its budget exceeded goes to close_client; a connection closed for
\* a timeout gets no further byte written; and an invocation leaves a read
\* loop for close_client while the peer is connected and nothing has failed
\* (the fd is open, the queue empty, the peer has neither closed nor reset)
\* only by that loop's timeout.
C26_TimeoutCloses ==
  [][ /\ \A c \in CONNS :
           why[c] \in {"header timeout", "data timeout"} => out'[c] = out[c]
      /\ \A c \in CONNS :
           (why'[c] # why[c] /\ why'[c] \in {"header timeout", "data timeout"})
             => \E t \in THREADS : tconn[t] = c /\ pc'[t] = "close"
      /\ \A t \in THREADS :
           ( /\ pc[t] \in {"readHeader", "readBody"}
             /\ pc'[t] = "close"
             /\ fdConn[tfd[t]] # 0
             /\ rcvq[fdConn[tfd[t]]] = << >>
             /\ peer[fdConn[tfd[t]]] = "open" )
           => why'[fdConn[tfd[t]]] =
                (IF pc[t] = "readHeader" THEN "header timeout" ELSE "data timeout") ]_vars

\* A body that stayed incomplete: the connection was closed for the timeout
\* with the peer still connected and nothing echoed
C26_Witness ==
  \E c \in CONNS :
    /\ why[c] = "data timeout"
    /\ cstate[c] = "closed"
    /\ peer[c] = "open"
    /\ sent[c] > header_total
    /\ sent[c] < Len(Script(c))
    /\ out[c] = << >>
    /\ \A t \in THREADS : pc[t] = "idle"

\* ------------------------------------------------- termination of the handler
\* A client that stays connected but stops reading: its receive window and the
\* server socket's send buffer are full from then on
ClientStall(c) ==
  /\ Live(c)
  /\ peer[c] = "open"
  /\ peer' = [peer EXCEPT ![c] = "stalled"]
  /\ UNCHANGED <<env, procVars, cstate, kind, sent, rcvq, out, drained, why, shortLeft, kernelVars,
                 registryVars, mainVars, threadVars>>

\* One connection, a frame delivered header first, then the payload
InitLive ==
  /\ env = [kinds |-> {"short", "two"}, conns |-> 1, sizes |-> {header_total, 1},
            shorts |-> 0, faults |-> TRUE, sync |-> FALSE]
  /\ InitState

NextLive == Next \/ \E c \in CONNS : ClientStall(c)

\* Every handler thread that can take a step that changes something takes one
\* in the end: the threads are scheduled, and the clock the timeouts compare
\* against advances (the iteration that finds only EAGAIN and an unexpired
\* budget changes nothing, so the expired one is taken in the end)
SpecLive == InitLive /\ [][NextLive]_vars /\ \A t \in THREADS : WF_vars(Handler(t))

\* C27: handler termination. Every invocation of handle_client_data that has
\* been started ends (in the re-arm or in close_client) and gives its thread
\* back, whatever the client does.
C27_HandlerTerminates ==
  \A t \in THREADS : (pc[t] # "idle") ~> (pc[t] = "idle")

\* ------------------------------------------------------- interrupted calls
\* One iteration of a read or write loop whose call returns -1 with errno
\* EINTR (a signal reached the thread inside the call, nothing was moved):
\* errno is neither EAGAIN nor EWOULDBLOCK, so the branch for other errors
\* runs: log_error, close_client, return
Interrupted(t) ==
  /\ pc[t] \in {"readHeader", "readBody", "echoHeader", "echoBody"}
  /\ env.faults
  /\ fdConn[tfd[t]] # 0
  /\ pc' = [pc EXCEPT ![t] = "close"]
  /\ why' = [why EXCEPT ![fdConn[tfd[t]]] =
               IF pc[t] \in {"readHeader", "readBody"} THEN "read failed" ELSE "write failed"]
  /\ UNCHANGED <<env, procVars, cstate, kind, sent, rcvq, out, peer, drained, shortLeft, kernelVars,
                 registryVars, mainVars, tfd, tconn, header, buffer, data_len, total_written>>

NextIntr == Next \/ \E t \in THREADS : Interrupted(t)

SpecIntr == InitLive /\ [][NextIntr]_vars

\* C28: transient I/O is retried locally. An invocation leaves a read loop or
\* an echo loop for close_client only on a timeout, on a zero-length read or
\* on a failed socket (the peer has reset it or the fd is closed): a call that
\* returned would-block or was interrupted does not by itself close the
\* connection.
C28_TransientRetried ==
  [][ \A t \in THREADS :
        (pc[t] \in {"readHeader", "readBody", "echoHeader", "echoBody"} /\ pc'[t] = "close")
        => \/ fdConn[tfd[t]] = 0
           \/ peer[fdConn[tfd[t]]] = "rst"
           \/ /\ pc[t] \in {"readHeader", "readBody"}
              /\ rcvq[fdConn[tfd[t]]] = << >>
              /\ \/ peer[fdConn[tfd[t]]] = "fin"
                 \/ why'[fdConn[tfd[t]]] \in {"header timeout", "data timeout"} ]_vars

\* C29: peer-initiated close. A read that returns 0 in the header loop or in
\* the body loop (nothing queued, the peer has shut its side down) takes the
\* handler to close_client with the informational report, not the error one;
\* from then on nothing more is echoed to that connection; and once the
\* invocation has returned the socket is closed and neither an fd nor a
\* buffer of the registry belongs to the connection.
C29_PeerClose ==
  [][ /\ \A t \in THREADS :
           ( /\ pc[t] \in {"readHeader", "readBody"}
             /\ pc'[t] # pc[t]
             /\ fdConn[tfd[t]] # 0
             /\ rcvq[fdConn[tfd[t]]] = << >>
             /\ peer[fdConn[tfd[t]]] = "fin" )
           => /\ pc'[t] = "close"
              /\ why'[fdConn[tfd[t]]] = "eof"
      /\ \A c \in CONNS :
           why[c] = "eof" =>
             /\ why'[c] = "eof"
             /\ out'[c] = out[c]
             /\ (\A t \in THREADS : tconn'[t] # c)
                  => /\ cstate'[c] = "closed"
                     /\ \A f \in FDS : fdConn'[f] # c
                     /\ \A f \in FDS : client_buffers'[f] # << >>
                                          => client_buffers'[f][1].owner # c ]_vars

C29_Witness ==
  \E c \in CONNS :
    /\ why[c] = "eof"
    /\ cstate[c] = "closed"
    /\ peer[c] = "fin"
    /\ sent[c] > header_total
    /\ sent[c] < Len(Script(c))
    /\ out[c] = << >>
    /\ \A t \in THREADS : pc[t] = "idle"

\* C30: header acceptance is exactly the validity predicate. The validation of
\* a fully received header leads to the body loop if and only if the magic it
\* decodes to is MAGIC_NUMBER and the data_len it decodes to satisfies
\* 0 < data_len <= BUFFER_SIZE, both ends of that range included as stated;
\* the msg_id word takes no part in the decision. Otherwise the handler goes
\* to close_client.
C30_HeaderAcceptance ==
  [][ \A t \in THREADS :
        (pc[t] = "validate" /\ pc'[t] # "validate") =>
          /\ Len(header[t]) = header_total
          /\ pc'[t] \in {"readBody", "close"}
          /\ pc'[t] = "readBody"
               <=> /\ ntohl(SubSeq(header[t], 1, 4)) = MAGIC_NUMBER
                   /\ 0 < ntohl(SubSeq(header[t], 5, 8))
                   /\ ntohl(SubSeq(header[t], 5, 8)) <= BUFFER_SIZE ]_vars

\* A header announcing exactly BUFFER_SIZE bytes has been accepted
C30_Witness ==
  \E t \in THREADS :
    /\ pc[t] = "readBody"
    /\ data_len[t] = BUFFER_SIZE
    /\ ntohl(SubSeq(header[t], 1, 4)) = MAGIC_NUMBER
    /\ ntohl(SubSeq(header[t], 9, 12)) = 6

\* C31: map guards are short-held. A step that runs a section guarded by
\* buffer_mutex (it changes client_buffers, or the guard is held before or
\* after it) does nothing but change the maps: it registers nothing with
\* epoll, closes no socket and reads or writes none; and a handler between
\* its take and its re-arm holds the mutex of its own fd.
C31_GuardsShortHeld ==
  [][ /\ (client_buffers' # client_buffers \/ buffer_mutex # 0 \/ buffer_mutex' # 0)
           => /\ interest' = interest
              /\ fdConn' = fdConn
              /\ rcvq' = rcvq
              /\ out' = out
      /\ \A t \in THREADS :
           pc[t] \in {"take", "readHeader", "validate", "readBody", "echoHeader", "echoBody",
                      "drain", "rearm"}
             => fdLockOwner[tfd[t]] = t ]_vars

\* ------------------------------------- the unframed server and short writes
\* The unframed process with one client whose socket may take a part of a
\* write, or none of it (EAGAIN), up to MaxShortWrites times
InitPlainShort ==
  /\ env = [kinds |-> {"one"}, conns |-> 1, sizes |-> {MaxSend},
            shorts |-> MaxShortWrites, faults |-> TRUE, sync |-> FALSE]
  /\ InitIdle
  /\ mainPc = "none"
  /\ server_fd = -1
  /\ listen_fd = -1
  /\ epoll_fd = -1
  /\ lstate = "none"
  /\ estate = "none"
  /\ listenArmed = FALSE
  /\ frames = << "init_socket" >>
  /\ initOk = "none"
  /\ shutdownDone = FALSE

SpecPlainShort == InitPlainShort /\ [][NextPlain]_vars

\* C32: unframed echo. For every connection that was not reset, the bytes the
\* server has written to it are the bytes it has read from it, in order,
\* whatever write() returned (all of the chunk, a part of it, or would-block).
C32_PlainEcho ==
  \A c \in CONNS :
    peer[c] # "rst" => out[c] = SubSeq(Script(c), 1, Consumed(c))

\* C33: drain discards only stale bytes. On a connection whose client sends
\* nothing but valid frames, each one after it has received the whole echo of
\* the one before, no byte is stale: the drain loop has discarded none of them.
C33_DrainOnlyStale ==
  \A c \in CONNS :
    (cstate[c] # "unborn" /\ Concat(FramesIn(Script(c))) = Script(c)) => drained[c] = 0

\* C34: handle reuse safety. The erase step of a teardown leaves alone what
\* the registry holds for another connection that by now has the same fd
\* number: the buffer stored for it, and the lock-map entry on which a handler
\* dispatched for it is waiting.
C34_ReuseSafe ==
  [][ \A t \in THREADS :
        (pc[t] = "closeErase" /\ pc'[t] # pc[t]) =>
          \A f \in FDS :
            (fdConn[f] # 0 /\ fdConn[f] # tconn[t]) =>
              /\ client_buffers'[f] = client_buffers[f]
              /\ (\E u \in THREADS : pc[u] = "lock" /\ tfd[u] = f /\ tconn[u] = fdConn[f])
                   => f \in fd_mutexes' ]_vars

\* C35: lock lifetime. An entry leaves fd_mutexes only while no invocation
\* holds its mutex and none is blocked on it, and an invocation that unlocks
\* the mutex of its fd finds the entry still there.
C35_LockLifetime ==
  [][ /\ \A f \in FDS :
           (f \in fd_mutexes /\ f \notin fd_mutexes') =>
             /\ fdLockOwner[f] = 0
             /\ \A u \in THREADS : ~(pc[u] = "lock" /\ tfd[u] = f)
      /\ \A t \in THREADS :
           (pc[t] \in {"ret", "unlockErased"} /\ pc'[t] = "idle") => tfd[t] \in fd_mutexes ]_vars

\* C36: deadlock freedom of the registry guards. No thread, the acceptor
\* included, is ever blocked locking buffer_mutex while it is itself the
\* thread that holds it.
C36_NoSelfDeadlock ==
  /\ ~(mainPc = "deadlock" /\ buffer_mutex = MainThread)
  /\ \A t \in THREADS : ~(pc[t] = "deadlock" /\ buffer_mutex = t)

\* C37: accumulator bounds. In every state of a handler header_read is at most
\* the 12 bytes of the header accumulator, data_read is at most data_len and
\* data_len is at most BUFFER_SIZE, so what a buffer holds never exceeds the
\* BUFFER_SIZE bytes allocated for it, in a handler or back in the registry.
C37_AccumulatorBounds ==
  /\ \A t \in THREADS :
       /\ Len(header[t]) <= header_total
       /\ Len(Owned(t)) <= data_len[t]
       /\ data_len[t] <= BUFFER_SIZE
  /\ \A f \in FDS :
       client_buffers[f] # << >> => Len(client_buffers[f][1].data) <= BUFFER_SIZE

\* The body loop has stored a byte of a frame whose data_len is BUFFER_SIZE
C37_Witness ==
  \E t \in THREADS :
    /\ pc[t] = "readBody"
    /\ Len(header[t]) = header_total
    /\ data_len[t] = BUFFER_SIZE
    /\ Len(Owned(t)) = 1

\* C38: buffer ownership conservation. The buffer of a live connection (one
\* the acceptor has inserted, not yet closed) is in exactly one place: in
\* client_buffers under the connection's fd, or in the hands of one handler
\* invocation dispatched for the connection.
C38_BufferConserved ==
  \A c \in CONNS :
    (cstate[c] = "estab" /\ ~(mainPc = "insert" /\ fdConn[curFd] = c)) =>
      Cardinality({f \in FDS : /\ fdConn[f] = c
                               /\ client_buffers[f] # << >>
                               /\ client_buffers[f][1].owner = c})
        + Cardinality({t \in THREADS : /\ tconn[t] = c
                                       /\ buffer[t] # << >>
                                       /\ buffer[t][1].owner = c}) = 1

\* C39: no double close after a failed init. When a setup step of init() has
\* failed, close() is never called on a handle that is not open (each handle
\* init() opened is closed once, by init() or by a later shutdown(), not by
\* both), and once shutdown() has returned no handle is left open.
C39_NoDoubleClose ==
  initOk = "false" =>
    /\ badClose = {}
    /\ shutdownDone => (lstate \notin {"open", "listening"} /\ estate # "open")

====
